---- MODULE Spec2Model ----
(***************************************************************************)
(* Model of koishi-plugin-spray (src/src/index.ts): the dimension planner  *)
(* resizeWithAspectRatioAndAlign and the WAD3 encoder generateWad3Spray.   *)
(*                                                                         *)
(* JavaScript numbers are IEEE-754 doubles.  The planner divides, takes a  *)
(* square root and multiplies before it floors, so those three operations  *)
(* are modelled with their correct rounding to a 53-bit significand.  The  *)
(* significands do not fit a machine integer of the model checker, so they *)
(* are kept as little-endian sequences of NLimbs limbs in base Base.       *)
(***************************************************************************)
EXTENDS Integers, Sequences, FiniteSets, TLC

(***************************************************************************)
(* Multi-limb naturals                                                     *)
(***************************************************************************)
Base == 1024
NLimbs == 12
MantBits == 53

LimbIdx == 1..NLimbs

\* limbs with carries propagated, as a sequence
RECURSIVE Carry(_, _, _)
Carry(raw, k, c) ==
  IF k > NLimbs THEN <<>>
  ELSE LET v == raw[k] + c IN <<v % Base>> \o Carry(raw, k + 1, v \div Base)

BigZero == Carry([k \in LimbIdx |-> 0], 1, 0)

\* a natural below 2^31 as limbs
BigOfInt(n) ==
  Carry([k \in LimbIdx |->
     IF k = 1 THEN n % Base
     ELSE IF k = 2 THEN (n \div Base) % Base
     ELSE IF k = 3 THEN (n \div (Base * Base)) % Base
     ELSE IF k = 4 THEN n \div (Base * Base * Base)
     ELSE 0], 1, 0)

\* the low three limbs as a machine integer (the value is below Base^3)
BigToInt(a) == a[1] + a[2] * Base + a[3] * Base * Base

BigAdd(a, b) == Carry([k \in LimbIdx |-> a[k] + b[k]], 1, 0)

BigMulSmall(a, n) == Carry([k \in LimbIdx |-> a[k] * n], 1, 0)

RECURSIVE Conv(_, _, _, _)
Conv(a, b, k, i) ==
  IF i > k THEN 0 ELSE a[i] * b[k + 1 - i] + Conv(a, b, k, i + 1)

BigMul(a, b) == Carry([k \in LimbIdx |-> Conv(a, b, k, 1)], 1, 0)

RECURSIVE BigCmpFrom(_, _, _)
BigCmpFrom(a, b, k) ==
  IF k = 0 THEN 0
  ELSE IF a[k] > b[k] THEN 1
  ELSE IF a[k] < b[k] THEN -1
  ELSE BigCmpFrom(a, b, k - 1)

BigCmp(a, b) == BigCmpFrom(a, b, NLimbs)

Half(a) ==
  Carry([k \in LimbIdx |->
     (a[k] \div 2) + (IF k < NLimbs THEN (a[k + 1] % 2) * (Base \div 2) ELSE 0)],
        1, 0)

\* floor(a / 2^n)
ShiftRight(a, n) ==
  LET q == n \div 10
      r == n % 10
      limb(k) == IF k <= NLimbs THEN a[k] ELSE 0
  IN  Carry([k \in LimbIdx |->
               (limb(k + q) \div 2 ^ r) + (limb(k + q + 1) % 2 ^ r) * 2 ^ (10 - r)],
            1, 0)

\* a * Base^n
ShiftLimbs(a, n) == Carry([k \in LimbIdx |-> IF k > n THEN a[k - n] ELSE 0], 1, 0)

\* 2^i
BitBig(i) ==
  Carry([k \in LimbIdx |-> IF k = (i \div 10) + 1 THEN 2 ^ (i % 10) ELSE 0], 1, 0)

\* long division by a machine integer d with d * Base < 2^31
RECURSIVE BigDivSmall(_, _, _, _)
BigDivSmall(a, d, k, rem) ==
  IF k = 0 THEN [q |-> <<>>, r |-> rem]
  ELSE LET cur  == rem * Base + a[k]
           rest == BigDivSmall(a, d, k - 1, cur % d)
       IN  [q |-> Append(rest.q, cur \div d), r |-> rest.r]

(***************************************************************************)
(* IEEE-754 doubles: a positive normal double is m * 2^e with              *)
(* 2^52 <= m < 2^53.  Results are rounded to nearest, ties to even.        *)
(***************************************************************************)
Two52 == BitBig(MantBits - 1)
Two53 == BitBig(MantBits)

\* round X * 2^e; g is the bit just below X, st says a lower bit is set
RECURSIVE FRound(_, _, _, _)
FRound(X, e, g, st) ==
  IF BigCmp(X, Two53) >= 0
    THEN FRound(Half(X), e + 1, X[1] % 2, st \/ g = 1)
  ELSE IF BigCmp(X, Two52) < 0
    THEN FRound(BigAdd(X, X), e - 1, 0, FALSE)
  ELSE IF g = 1 /\ (st \/ X[1] % 2 = 1)
    THEN LET Y == BigAdd(X, BitBig(0))
         IN  IF BigCmp(Y, Two53) >= 0 THEN [m |-> Two52, e |-> e + 1]
             ELSE [m |-> Y, e |-> e]
  ELSE [m |-> X, e |-> e]

\* n / d for positive integers n, d below 2^21 (both exact as doubles)
DivShift == 8
FDivInt(n, d) ==
  LET qr == BigDivSmall(ShiftLimbs(BigOfInt(n), DivShift), d, NLimbs, 0)
  IN  FRound(qr.q, 0 - 10 * DivShift, 0, qr.r # 0)

\* floor of the square root of X < 2^106, one result bit at a time
RECURSIVE ISqrtBits(_, _, _)
ISqrtBits(X, r, i) ==
  IF i < 0 THEN r
  ELSE LET c == BigAdd(r, BitBig(i))
       IN  IF BigCmp(BigMul(c, c), X) <= 0 THEN ISqrtBits(X, c, i - 1)
           ELSE ISqrtBits(X, r, i - 1)

\* Math.sqrt: the double nearest to the square root (never a tie)
FSqrt(x) ==
  LET odd == x.e % 2
      X   == ShiftLimbs(BigMulSmall(x.m, IF odd = 1 THEN 8 ELSE 4), 5)
      es  == (x.e - (MantBits - 1) - odd) \div 2
      r   == ISqrtBits(X, BigZero, MantBits - 1)
      up  == BigCmp(X, BigAdd(BigMul(r, r), r)) > 0
  IN  FRound(IF up THEN BigAdd(r, BitBig(0)) ELSE r, es, 0, FALSE)

\* n * x for a positive integer n below 2^21
FMulInt(n, x) == FRound(BigMulSmall(x.m, n), x.e, 0, FALSE)

\* Math.floor(x / 2^k) for a double x with x / 2^k below 2^30
FFloorDivPow2(x, k) == BigToInt(ShiftRight(x.m, k - x.e))

(***************************************************************************)
(* Dimension planner                                                       *)
(***************************************************************************)
Align == 16
AlignLog2 == 4

\* variant without "if (w === 0) w = align"
AlignDownNoClamp(ideal) == FFloorDivPow2(ideal, AlignLog2) * Align

\* Step 2 of the planner: floor to a multiple of align, then avoid 0
AlignDown(ideal) ==
  LET a == FFloorDivPow2(ideal, AlignLog2) * Align
  IN  IF a = 0 THEN Align ELSE a

\* const scale = Math.sqrt(maxPixel / (fw * fh))
Scale(srcW, srcH, maxPixel) == FSqrt(FDivInt(maxPixel, srcW * srcH))

(***************************************************************************)
(* generateWad3Spray: helpers                                              *)
(***************************************************************************)
\* variant that throws only when both are 0
InvalidSizeBoth(pw, ph) == pw = 0 /\ ph = 0

\* if (!w || !h) throw new Error('Invalid image size')
InvalidSize(pw, ph) == pw = 0 \/ ph = 0

\* The quantizer (sharp: resize to w x h, png palette with colors: 255,
\* decoded to raw RGBA).  Its output has one RGBA quadruple per pixel and
\* at most QuantColors distinct quadruples; which ones is up to the image.
QuantColors == 255

Color(ci) ==
  CASE ci = 0 -> <<0, 0, 0, 255>>
    [] ci = 1 -> <<0, 0, 255, 255>>
    [] ci = 2 -> <<10, 20, 30, 0>>
    [] ci = 3 -> <<10, 20, 30, 128>>
    [] ci = 4 -> <<10, 20, 30, 129>>
    [] OTHER  -> <<ci, 255 - ci, 7, 255>>

\* an image of n pixels that cycles through count colours from colour start
Quantized(n, start, count) ==
  [j \in 1..(4 * n) |->
     Color((start + (((j - 1) \div 4) % count)) % QuantColors)[((j - 1) % 4) + 1]]

\* [pixelData[i], pixelData[i + 1], pixelData[i + 2], pixelData[i + 3]], i = 4 * p
Pixel(data, p) ==
  <<data[4 * p + 1], data[4 * p + 2], data[4 * p + 3], data[4 * p + 4]>>

NumPixels(data) == Len(data) \div 4

\* body of the palette loop for pixel p: push the colour unless seen
PaletteStep(acc, data, p) ==
  LET px == Pixel(data, p)
  IN  IF px \in acc.seen THEN acc
      ELSE [seen |-> acc.seen \cup {px}, pal |-> Append(acc.pal, px)]

\* the palette loop over pixels lo .. hi - 1, in order (the range is halved
\* to keep the evaluation shallow; the steps run left to right)
RECURSIVE ScanPixels(_, _, _, _)
ScanPixels(acc, data, lo, hi) ==
  IF hi <= lo THEN acc
  ELSE IF hi = lo + 1 THEN PaletteStep(acc, data, lo)
  ELSE LET mid  == (lo + hi) \div 2
           left == ScanPixels(acc, data, lo, mid)
       IN  \* the test always holds; it evaluates left before the right half
           IF Len(left.pal) >= 0 THEN ScanPixels(left, data, mid, hi) ELSE acc

Black == <<0, 0, 0, 255>>
TransparentKey == <<0, 0, 255, 255>>
TransparentIndex == 255
PaletteSize == 256
AlphaThreshold == 128

\* variant that pads to 256 entries before the key colour
PadPaletteOneMore(pal) ==
  (IF Len(pal) < PaletteSize
     THEN pal \o [k \in 1..(PaletteSize - Len(pal)) |-> Black]
     ELSE pal) \o <<TransparentKey>>

\* while (rgbaPalette.length < 255) push black; then push the key colour
PadPalette(pal) ==
  (IF Len(pal) < PaletteSize - 1
     THEN pal \o [k \in 1..(PaletteSize - 1 - Len(pal)) |-> Black]
     ELSE pal) \o <<TransparentKey>>

\* rgbaPalette.findIndex(...): 0-based index of the first match, or -1
FindIndex(pal, px) ==
  LET S == {j \in 1..Len(pal) : pal[j] = px}
  IN  IF S = {} THEN 0 - 1
      ELSE (CHOOSE j \in S : \A k \in S : j <= k) - 1

\* variant with a < 128
IsTransparentStrict(px) == px[4] < AlphaThreshold

\* a <= 128
IsTransparent(px) == px[4] <= AlphaThreshold

\* body of the index loop
IndexOfPixel(pal, px) ==
  IF IsTransparent(px) THEN TransparentIndex
  ELSE LET idx == FindIndex(pal, px)
       IN  IF idx >= 0 THEN idx ELSE TransparentIndex

\* Buffer.from(number[]) keeps the low 8 bits of each element
ToByte(v) == v % 256

\* variant with a linear step
MipStepLinear(level) == level + 1

\* const step = 1 << level
MipStep(level) == 2 ^ level

\* indexedPixels[idx] ?? 255
Sample(ip, idx) == IF idx < Len(ip) THEN ip[idx + 1] ELSE TransparentIndex

\* for (let x = ...; x < w; x += step) buf.push(...)
RECURSIVE MipRow(_, _, _, _, _)
MipRow(ip, pw, step, y, x) ==
  IF x < pw
    THEN <<ToByte(Sample(ip, y * pw + x))>> \o MipRow(ip, pw, step, y, x + step)
    ELSE <<>>

\* for (let y = ...; y < h; y += step) ...
RECURSIVE MipRows(_, _, _, _, _)
MipRows(ip, pw, ph, step, y) ==
  IF y < ph
    THEN MipRow(ip, pw, step, y, 0) \o MipRows(ip, pw, ph, step, y + step)
    ELSE <<>>

MipLevels == 4

MipBuffer(ip, pw, ph, level) == MipRows(ip, pw, ph, MipStep(level), 0)

\* mipsSizes.reduce((a, b) => a + b, 0)
TotalMipSize(mips) == Len(mips[1]) + Len(mips[2]) + Len(mips[3]) + Len(mips[4])

\* writeUInt32LE
UInt32LE(v) ==
  <<v % 256, (v \div 256) % 256, (v \div 65536) % 256, (v \div 16777216) % 256>>

\* readUInt32LE at 0-based offset off
ReadUInt32LE(buf, off) ==
  buf[off + 1] + 256 * buf[off + 2] + 65536 * buf[off + 3] + 16777216 * buf[off + 4]

\* 'WAD3'
Magic == <<87, 65, 68, 51>>
\* '{LOGO' followed by eleven NUL bytes
LogoName == <<123, 76, 79, 71, 79, 0, 0, 0, 0, 0, 0, 0, 0, 0, 0, 0>>

\* variant that counts from the end of the 52-byte header
MipOffsetBaseAbsolute == 52

MipOffsetBase == 40

\* variant that always adds mipsSizes[0]
RECURSIVE MipOffsetsFirstSize(_, _, _)
MipOffsetsFirstSize(mips, i, offset) ==
  IF i > MipLevels THEN <<>>
  ELSE UInt32LE(offset) \o MipOffsetsFirstSize(mips, i + 1, offset + Len(mips[1]))

\* let offset = 40; for (i < 4) { write offset; offset += mipsSizes[i] }
RECURSIVE MipOffsets(_, _, _)
MipOffsets(mips, i, offset) ==
  IF i > MipLevels THEN <<>>
  ELSE UInt32LE(offset) \o MipOffsets(mips, i + 1, offset + Len(mips[i]))

\* the 52-byte header: bytes 8..11 stay 0 until the backfill
Header(pw, ph, mips) ==
  Magic \o UInt32LE(1) \o <<0, 0, 0, 0>> \o LogoName \o UInt32LE(pw) \o UInt32LE(ph)
    \o MipOffsets(mips, 1, MipOffsetBase)

TypeMarker == <<0, 1, 0, 0>>

\* 256 * 3 bytes: r, g, b of rgbaPalette[i] || { r: 0, g: 0, b: 0 }
PaletteBuf(pal) ==
  [j \in 1..(PaletteSize * 3) |->
     LET i == ((j - 1) \div 3) + 1
     IN  IF i <= Len(pal) THEN pal[i][((j - 1) % 3) + 1] ELSE 0]

\* variant without the excess === 0 case
requiredPaddingAlways(length, multiple) == multiple - (length % multiple)

requiredPadding(length, multiple) ==
  LET excess == length % multiple
  IN  IF excess = 0 THEN 0 ELSE multiple - excess

HeaderSize == 52

\* variant that forgets the type marker
CurrentLengthNoMarker(totalMipSize) == HeaderSize + totalMipSize + PaletteSize * 3

\* const currentLength = 52 + totalMipSize + 4 + 256 * 3
CurrentLength(totalMipSize) == HeaderSize + totalMipSize + 4 + PaletteSize * 3

LumpSize == 32
TextureOffset == 12
LumpOffsetField == 8

\* the 32-byte directory entry
Lump(mainDataEnd) ==
  LET sizeOnDisk == mainDataEnd - 40
  IN  UInt32LE(TextureOffset) \o UInt32LE(sizeOnDisk) \o UInt32LE(sizeOnDisk)
        \o <<67, 0>> \o <<0, 0>> \o LogoName

\* Buffer.concat(chunks)
RECURSIVE Concat(_, _)
Concat(cs, i) == IF i > Len(cs) THEN <<>> ELSE cs[i] \o Concat(cs, i + 1)

\* fullBuffer.writeUInt32LE(v, off)
WriteUInt32LE(buf, v, off) ==
  [j \in 1..Len(buf) |->
     IF j > off /\ j <= off + 4 THEN UInt32LE(v)[j - off] ELSE buf[j]]

(***************************************************************************)
(* State                                                                   *)
(***************************************************************************)
VARIABLES
  pc,            \* position in generateWad3Spray / the planner
  maxPixiel,     \* config.maxPixiel
  fw, fh,        \* metadata.width, metadata.height (0: missing)
  scale,         \* the planner's scale, a double
  w, h,          \* the planner's w and h
  ref,           \* <<w, h>> planned for the last square source, or <<>>
  err,           \* message of the Error thrown, or ""
  pixelData,     \* raw RGBA bytes of the quantized image
  rgbaPalette,   \* sequence of <<r, g, b, a>>
  indexedPixels, \* one palette index per pixel
  mipsData,      \* the four mip buffers
  chunks,        \* buffers written to the stream, in order
  pad,           \* number of padding bytes
  fullBuffer     \* the returned buffer

vars == <<pc, maxPixiel, fw, fh, scale, w, h, ref, err, pixelData, rgbaPalette,
          indexedPixels, mipsData, chunks, pad, fullBuffer>>

planVars == <<scale, w, h>>
encVars  == <<pixelData, rgbaPalette, indexedPixels, mipsData, chunks, pad,
              fullBuffer>>

NoScale == [m |-> BigZero, e |-> 0]

(***************************************************************************)
(* resizeWithAspectRatioAndAlign, one action per step                      *)
(***************************************************************************)
\* Step 1: scale
PlanScale ==
  /\ pc = "scale"
  /\ scale' = Scale(fw, fh, maxPixiel)
  /\ pc' = "align"
  /\ UNCHANGED <<maxPixiel, fw, fh, w, h, ref, err>>
  /\ UNCHANGED encVars

\* Step 2: wIdeal, hIdeal, floor to a multiple of align, avoid 0
PlanAlign ==
  /\ pc = "align"
  /\ w' = AlignDown(FMulInt(fw, scale))
  /\ h' = AlignDown(FMulInt(fh, scale))
  /\ pc' = "shrink"
  /\ UNCHANGED <<maxPixiel, fw, fh, scale, ref, err>>
  /\ UNCHANGED encVars

\* Step 3: one iteration of while (w * h > maxPixel)
ShrinkStep ==
  /\ pc = "shrink"
  /\ w * h > maxPixiel
  /\ IF w >= h THEN w' = w - Align /\ h' = h
               ELSE h' = h - Align /\ w' = w
  /\ pc' = IF w' <= 0 \/ h' <= 0 THEN "planned" ELSE "shrink"
  /\ UNCHANGED <<maxPixiel, fw, fh, scale, ref, err>>
  /\ UNCHANGED encVars

\* the loop condition fails: return { w, h }
ShrinkDone ==
  /\ pc = "shrink"
  /\ ~(w * h > maxPixiel)
  /\ pc' = "planned"
  /\ UNCHANGED <<maxPixiel, fw, fh, scale, w, h, ref, err>>
  /\ UNCHANGED encVars

(***************************************************************************)
(* The planner on its own: the plugin plans one image after another with   *)
(* the same config.maxPixiel.                                              *)
(***************************************************************************)
MaxSide == 5
BigSquares == {17, 256, 1024}
PlanBudgets == {1, 255, 256, 1024, 2304, 9216, 12288, 14336}
PlanSources ==
  {<<a, b>> : a \in 1..MaxSide, b \in 1..MaxSide} \cup {<<n, n>> : n \in BigSquares}

PlanInit ==
  /\ pc = "scale"
  /\ maxPixiel \in PlanBudgets
  /\ \E s \in PlanSources : fw = s[1] /\ fh = s[2]
  /\ scale = NoScale
  /\ w = 0
  /\ h = 0
  /\ ref = <<>>
  /\ err = ""
  /\ pixelData = <<>>
  /\ rgbaPalette = <<>>
  /\ indexedPixels = <<>>
  /\ mipsData = <<>>
  /\ chunks = <<>>
  /\ pad = 0
  /\ fullBuffer = <<>>

\* the next command: another image, same configuration
PlanCall ==
  /\ pc = "planned"
  /\ \E s \in PlanSources : fw' = s[1] /\ fh' = s[2]
  /\ ref' = IF fw = fh THEN <<w, h>> ELSE ref
  /\ scale' = NoScale
  /\ w' = 0
  /\ h' = 0
  /\ pc' = "scale"
  /\ UNCHANGED <<maxPixiel, err>>
  /\ UNCHANGED encVars

PlanNext == PlanScale \/ PlanAlign \/ ShrinkStep \/ ShrinkDone \/ PlanCall

PlanSpec == PlanInit /\ [][PlanNext]_vars

(***************************************************************************)
(* generateWad3Spray, one action per step                                  *)
(***************************************************************************)
MaxSrc == 2
Budgets == {1, 255, 256, 512, 1024}
Starts == {0, 2, 5}
Counts == {1, 2, QuantColors}

Init ==
  /\ pc = "start"
  /\ maxPixiel \in Budgets
  /\ fw \in 0..MaxSrc
  /\ fh \in 0..MaxSrc
  /\ scale = NoScale
  /\ w = 0
  /\ h = 0
  /\ ref = <<>>
  /\ err = ""
  /\ pixelData = <<>>
  /\ rgbaPalette = <<>>
  /\ indexedPixels = <<>>
  /\ mipsData = <<>>
  /\ chunks = <<>>
  /\ pad = 0
  /\ fullBuffer = <<>>

\* if (!fw || !fh) throw new Error('Invalid image'); else call the planner
CheckImage ==
  /\ pc = "start"
  /\ IF fw = 0 \/ fh = 0
       THEN pc' = "failed" /\ err' = "Invalid image"
       ELSE pc' = "scale" /\ err' = err
  /\ UNCHANGED <<maxPixiel, fw, fh, ref>>
  /\ UNCHANGED planVars
  /\ UNCHANGED encVars

\* if (!w || !h) throw new Error('Invalid image size')
CheckSize ==
  /\ pc = "planned"
  /\ IF InvalidSize(w, h)
       THEN pc' = "failed" /\ err' = "Invalid image size"
       ELSE pc' = "quantize" /\ err' = err
  /\ UNCHANGED <<maxPixiel, fw, fh, ref>>
  /\ UNCHANGED planVars
  /\ UNCHANGED encVars

\* Step 2: resize to w x h, quantize, decode to raw RGBA
Quantize ==
  /\ pc = "quantize"
  /\ \E start \in Starts, count \in Counts :
       pixelData' = Quantized(w * h, start, count)
  /\ pc' = "palette"
  /\ UNCHANGED <<maxPixiel, fw, fh, ref, err>>
  /\ UNCHANGED planVars
  /\ UNCHANGED <<rgbaPalette, indexedPixels, mipsData, chunks, pad, fullBuffer>>

\* the palette: distinct colours in first-seen order, black padding, the key
BuildPalette ==
  /\ pc = "palette"
  /\ rgbaPalette' =
       PadPalette(ScanPixels([seen |-> {}, pal |-> <<>>], pixelData, 0,
                             NumPixels(pixelData)).pal)
  /\ pc' = "index"
  /\ UNCHANGED <<maxPixiel, fw, fh, ref, err>>
  /\ UNCHANGED planVars
  /\ UNCHANGED <<pixelData, indexedPixels, mipsData, chunks, pad, fullBuffer>>

\* the indexed pixels
BuildIndexed ==
  /\ pc = "index"
  /\ indexedPixels' =
       [p \in 1..NumPixels(pixelData) |->
          IndexOfPixel(rgbaPalette, Pixel(pixelData, p - 1))]
  /\ pc' = "mips"
  /\ UNCHANGED <<maxPixiel, fw, fh, ref, err>>
  /\ UNCHANGED planVars
  /\ UNCHANGED <<pixelData, rgbaPalette, mipsData, chunks, pad, fullBuffer>>

\* Step 3: the four mip levels
BuildMips ==
  /\ pc = "mips"
  /\ mipsData' = [level \in 1..MipLevels |-> MipBuffer(indexedPixels, w, h, level - 1)]
  /\ pc' = "header"
  /\ UNCHANGED <<maxPixiel, fw, fh, ref, err>>
  /\ UNCHANGED planVars
  /\ UNCHANGED <<pixelData, rgbaPalette, indexedPixels, chunks, pad, fullBuffer>>

\* Step 4: stream.write(header)
WriteHeader ==
  /\ pc = "header"
  /\ chunks' = Append(chunks, Header(w, h, mipsData))
  /\ pc' = "writemips"
  /\ UNCHANGED <<maxPixiel, fw, fh, ref, err>>
  /\ UNCHANGED planVars
  /\ UNCHANGED <<pixelData, rgbaPalette, indexedPixels, mipsData, pad, fullBuffer>>

\* for (const mip of mipsData) stream.write(mip)
WriteMips ==
  /\ pc = "writemips"
  /\ chunks' = chunks \o mipsData
  /\ pc' = "writepalette"
  /\ UNCHANGED <<maxPixiel, fw, fh, ref, err>>
  /\ UNCHANGED planVars
  /\ UNCHANGED <<pixelData, rgbaPalette, indexedPixels, mipsData, pad, fullBuffer>>

\* the type marker and the palette
WritePalette ==
  /\ pc = "writepalette"
  /\ chunks' = chunks \o <<TypeMarker, PaletteBuf(rgbaPalette)>>
  /\ pc' = "padding"
  /\ UNCHANGED <<maxPixiel, fw, fh, ref, err>>
  /\ UNCHANGED planVars
  /\ UNCHANGED <<pixelData, rgbaPalette, indexedPixels, mipsData, pad, fullBuffer>>

\* padding to 4-byte alignment
WritePadding ==
  /\ pc = "padding"
  /\ pad' = requiredPadding(CurrentLength(TotalMipSize(mipsData)), 4)
  /\ chunks' = IF pad' > 0 THEN Append(chunks, [k \in 1..pad' |-> 0]) ELSE chunks
  /\ pc' = "lump"
  /\ UNCHANGED <<maxPixiel, fw, fh, ref, err>>
  /\ UNCHANGED planVars
  /\ UNCHANGED <<pixelData, rgbaPalette, indexedPixels, mipsData, fullBuffer>>

\* const mainDataEnd = currentLength + pad
MainDataEnd == CurrentLength(TotalMipSize(mipsData)) + pad

\* the lump directory; stream.end()
WriteLump ==
  /\ pc = "lump"
  /\ chunks' = Append(chunks, Lump(MainDataEnd))
  /\ pc' = "finish"
  /\ UNCHANGED <<maxPixiel, fw, fh, ref, err>>
  /\ UNCHANGED planVars
  /\ UNCHANGED <<pixelData, rgbaPalette, indexedPixels, mipsData, pad, fullBuffer>>

\* Buffer.concat(chunks), backfill of the lump offset, return
Finish ==
  /\ pc = "finish"
  /\ fullBuffer' = WriteUInt32LE(Concat(chunks, 1), MainDataEnd, LumpOffsetField)
  /\ pc' = "done"
  /\ UNCHANGED <<maxPixiel, fw, fh, ref, err>>
  /\ UNCHANGED planVars
  /\ UNCHANGED <<pixelData, rgbaPalette, indexedPixels, mipsData, chunks, pad>>

Next ==
  \/ CheckImage
  \/ PlanScale
  \/ PlanAlign
  \/ ShrinkStep
  \/ ShrinkDone
  \/ CheckSize
  \/ Quantize
  \/ BuildPalette
  \/ BuildIndexed
  \/ BuildMips
  \/ WriteHeader
  \/ WriteMips
  \/ WritePalette
  \/ WritePadding
  \/ WriteLump
  \/ Finish

Spec == Init /\ [][Next]_vars

(***************************************************************************)
(* Properties                                                              *)
(***************************************************************************)
CeilDiv(a, b) == (a + b - 1) \div b

\* absolute byte offset at which chunk i starts in the concatenated stream
RECURSIVE ChunkPos(_)
ChunkPos(i) == IF i <= 1 THEN 0 ELSE ChunkPos(i - 1) + Len(chunks[i - 1])

\* the 32-bit field stored at 0-based offset off of the returned buffer
Field(off) == ReadUInt32LE(fullBuffer, off)

\* the distinct (r, g, b, a) quadruples of the quantized image
Observed == {Pixel(pixelData, p) : p \in 0..(NumPixels(pixelData) - 1)}

\* position of the first pixel of colour c
FirstSeen(c) ==
  CHOOSE p \in 0..(NumPixels(pixelData) - 1) :
    Pixel(pixelData, p) = c /\ \A q \in 0..(p - 1) : Pixel(pixelData, q) # c

\* C1 as stated: for all fw, fh, maxPixel > 0 the planner returns w and h
\* that are positive multiples of 16 with w * h <= maxPixel.
C1_PositiveAligned ==
  pc = "planned" =>
    /\ w > 0 /\ h > 0
    /\ w % Align = 0 /\ h % Align = 0
    /\ w * h <= maxPixiel

\* C1 amended: the planner returns non-negative multiples of 16 with
\* w * h <= maxPixel; both are positive when maxPixel >= 256, and one of
\* them is 0 when maxPixel < 256.
C1_AlignedWithinBudget ==
  pc = "planned" =>
    /\ w >= 0 /\ h >= 0
    /\ w % Align = 0 /\ h % Align = 0
    /\ w * h <= maxPixiel
    /\ (maxPixiel >= Align * Align => w > 0 /\ h > 0)
    /\ (maxPixiel < Align * Align => w = 0 \/ h = 0)

C1_Witness ==
  pc = "planned" /\ maxPixiel >= Align * Align /\ fw # fh /\ w > Align /\ h > Align

\* C7: for a fixed maxPixel the planner returns the same (w, h) for every
\* square source, whatever its side; for maxPixel = 12288 the sides 256 and
\* 1024 give 96 x 96.
C7_SquareSourcesAgree ==
  (pc = "planned" /\ fw = fh) =>
    /\ ref # <<>> => <<w, h>> = ref
    /\ (maxPixiel = 12288 /\ fw \in {256, 1024}) => (w = 96 /\ h = 96)

\* C8: when the correction loop has driven w or h to <= 0, the encode fails
\* with 'Invalid image size'; the quantizer is not called and no byte is
\* written or returned.
C8_InvalidSizeFails ==
  (scale # NoScale /\ pc \notin {"align", "shrink", "planned"} /\ (w <= 0 \/ h <= 0)) =>
    /\ pc = "failed"
    /\ err = "Invalid image size"
    /\ pixelData = <<>>
    /\ chunks = <<>>
    /\ fullBuffer = <<>>

C8_Witness ==
  pc = "failed" /\ err = "Invalid image size" /\ scale # NoScale /\ w = 0 /\ h > 0

\* C2: the 32-bit value at byte 8 of the returned buffer is the length of
\* the buffer minus 32 and the length of everything written before the
\* directory entry (header, mips, type marker, palette, padding); the
\* 32-byte directory entry is the end of the buffer.
C2_DirectoryOffset ==
  pc = "done" =>
    LET n    == Len(fullBuffer)
        last == Len(chunks)
    IN  /\ Field(LumpOffsetField) = n - LumpSize
        /\ Field(LumpOffsetField) = ChunkPos(last)
        /\ Field(LumpOffsetField) =
             52 + Len(chunks[2]) + Len(chunks[3]) + Len(chunks[4]) + Len(chunks[5])
                + 4 + 768 + pad
        /\ Len(chunks[last]) = LumpSize
        /\ SubSeq(fullBuffer, n - LumpSize + 1, n) = chunks[last]
        /\ fullBuffer[n - LumpSize + 13] = 67

C2_Witness ==
  pc = "done" /\ Len(fullBuffer) > LumpSize /\ Field(LumpOffsetField) > HeaderSize /\ w > h

\* C3: mip level k has ceil(w / 2^k) * ceil(h / 2^k) bytes; level 0 has
\* w * h bytes and its element j is element j of the base index buffer.
C3_MipSizes ==
  mipsData # <<>> =>
    /\ \A k \in 0..3 :
         Len(mipsData[k + 1]) = CeilDiv(w, 2 ^ k) * CeilDiv(h, 2 ^ k)
    /\ Len(mipsData[1]) = w * h
    /\ Len(indexedPixels) = w * h
    /\ \A j \in 1..(w * h) : mipsData[1][j] = indexedPixels[j]

C3_Witness ==
  /\ pc = "header"
  /\ w < h
  /\ Len(mipsData[4]) = (w \div 8) * (h \div 8)
  /\ \E j \in 1..Len(mipsData[1]) : mipsData[1][j] # TransparentIndex

\* C4: the fields at bytes 36, 40, 44, 48 are 40, 40 + len(mip0),
\* 40 + len(mip0) + len(mip1), 40 + len(mip0) + len(mip1) + len(mip2), with
\* the lengths of the mip buffers as written to the file.
C4_MipOffsetFields ==
  pc = "done" =>
    /\ Field(36) = 40
    /\ Field(40) = 40 + Len(chunks[2])
    /\ Field(44) = 40 + Len(chunks[2]) + Len(chunks[3])
    /\ Field(48) = 40 + Len(chunks[2]) + Len(chunks[3]) + Len(chunks[4])
    /\ \A k \in 1..MipLevels : chunks[k + 1] = mipsData[k]

C4_Witness ==
  pc = "done" /\ Field(48) > Field(44) /\ Field(44) > Field(40) /\ Field(40) > 40

C6_Palette ==
  (rgbaPalette # <<>> /\ Cardinality(Observed) <= 255) =>
    LET n == Cardinality(Observed)
    IN  /\ Len(rgbaPalette) = 256
        /\ rgbaPalette[256] = <<0, 0, 255, 255>>
        /\ {rgbaPalette[i] : i \in 1..n} = Observed
        /\ \A i \in (n + 1)..255 : rgbaPalette[i] = <<0, 0, 0, 255>>
        /\ pc = "index" =>
             \A i \in 1..(n - 1) :
               FirstSeen(rgbaPalette[i]) < FirstSeen(rgbaPalette[i + 1])

C6_Witness ==
  /\ pc = "index"
  /\ Cardinality(Observed) = 2
  /\ rgbaPalette[1] # Black
  /\ rgbaPalette[3] = Black
  /\ rgbaPalette[255] = Black

\* C9: with at most 255 distinct quadruples, a pixel with alpha <= 128 has
\* index 255 and any other pixel has an index i in 0..254 with palette[i]
\* equal to the pixel (the no-match fallback is not taken); every value of
\* the base buffer and of the mip buffers is in 0..255; an image with
\* alpha = 0 everywhere gives base and mip buffers of 255 only.
C9_Indexed ==
  (indexedPixels # <<>> /\ Cardinality(Observed) <= 255) =>
    /\ \A p \in 1..Len(indexedPixels) :
         LET px == Pixel(pixelData, p - 1)
         IN  /\ px[4] <= 128 => indexedPixels[p] = 255
             /\ px[4] > 128 =>
                  /\ indexedPixels[p] \in 0..254
                  /\ rgbaPalette[indexedPixels[p] + 1] = px
                  /\ FindIndex(rgbaPalette, px) >= 0
    /\ \A k \in 1..Len(mipsData) : \A j \in 1..Len(mipsData[k]) :
         mipsData[k][j] \in 0..255
    /\ (\A c \in Observed : c[4] = 0) =>
         /\ \A p \in 1..Len(indexedPixels) : indexedPixels[p] = 255
         /\ \A k \in 1..Len(mipsData) : \A j \in 1..Len(mipsData[k]) :
              mipsData[k][j] = 255

C9_Witness ==
  /\ pc = "header"
  /\ \E c \in Observed : c[4] = 128
  /\ \E p \in 1..Len(indexedPixels) : indexedPixels[p] \in 0..254
  /\ \E p \in 1..Len(indexedPixels) : indexedPixels[p] = 255

\* C10: for positive multiples of 16 the length written before the
\* directory entry is a multiple of 4, requiredPadding returns 0 and no
\* padding is written; the directory offset is 824 + 85 * w * h / 64 and the
\* output has 856 + 85 * w * h / 64 bytes.
C10_NoPadding ==
  (pc = "done" /\ w > 0 /\ h > 0 /\ w % 16 = 0 /\ h % 16 = 0) =>
    /\ (52 + TotalMipSize(mipsData) + 4 + 768) % 4 = 0
    /\ pad = 0
    /\ Len(chunks) = 8
    /\ (85 * w * h) % 64 = 0
    /\ Field(LumpOffsetField) = 824 + (85 * w * h) \div 64
    /\ Len(fullBuffer) = 856 + (85 * w * h) \div 64

C10_Witness ==
  pc = "done" /\ pad = 0 /\ w = 16 /\ h = 16 /\ Len(fullBuffer) = 1196

====
